---- MODULE Spec2Model ----
(***************************************************************************)
(* A model of scripts/update_market.py: one invocation of main() loads the *)
(* previous data/market.json, fetches the Fear & Greed index (CNN graph    *)
(* JSON, then CNN page scrape) and the VIX (FRED CSV), merges the readings *)
(* into the loaded snapshot, appends this run's notes and writes the file  *)
(* back.  Invocations follow each other; the file is the only state that   *)
(* survives from one to the next.                                          *)
(*                                                                         *)
(* Values.  Python/JSON values are tagged records:                         *)
(*   [t |-> "null"]                      None / null                       *)
(*   [t |-> "bool", b |-> TRUE]          True / False                      *)
(*   [t |-> "int", neg, ip]              an int: its sign and the decimal  *)
(*                                       digits of its magnitude           *)
(*   [t |-> "float", neg, ip, fp]        a finite float: its sign and the  *)
(*                                       exact decimal expansion of the    *)
(*                                       binary64 number it is (61.6 is    *)
(*                                       61.60000000000000142108547...)    *)
(*   [t |-> "inf", neg]                  the floats inf and -inf           *)
(*   [t |-> "nan"]                       the float NaN                     *)
(*   [t |-> "str",  s |-> <<c1, ...>>]   a string, as a tuple of characters*)
(*                                       (a text nobody parses is a tuple  *)
(*                                       of one chunk, <<"FRED (VIXCLS)">>)*)
(*   [t |-> "list", items |-> <<...>>]   a list                            *)
(*   [t |-> "obj",  kv |-> <<<<k, v>>, ...>>]  a dict, in insertion order  *)
(*   [t |-> "raise", e, msg]             the exception a function raised   *)
(*                                       instead of returning              *)
(* A sequence of digits is a tuple of the numbers 0..9, the most           *)
(* significant first; a natural number has no leading zero (<<>> is 0), a  *)
(* fraction no trailing zero.  A character is a one-character string; a    *)
(* control or non-ASCII character is written by its code point, "U+00A0"   *)
(* (but "\t", "\n", "\f" and "\r").                                        *)
(***************************************************************************)
EXTENDS Integers, Sequences, FiniteSets, TLC

----------------------------------------------------------------------------
(* Digits: the arithmetic of float(), round() and int() *)

RECURSIVE NatDigits(_)
\* the digits of a natural number
NatDigits(n) == IF n = 0 THEN <<>> ELSE Append(NatDigits(n \div 10), n % 10)

RECURSIVE NatValue(_)
\* the natural number of a short run of digits
NatValue(ds) ==
    IF ds = <<>> THEN 0 ELSE NatValue(SubSeq(ds, 1, Len(ds) - 1)) * 10 + ds[Len(ds)]

Zeros(n) == [i \in 1..n |-> 0]

\* ds without its leading zeros
StripLeading(ds) ==
    SubSeq(ds, Cardinality({i \in 1..Len(ds) : \A j \in 1..i : ds[j] = 0}) + 1, Len(ds))

\* ds without its trailing zeros
StripTrailing(ds) ==
    SubSeq(ds, 1, Len(ds) - Cardinality({i \in 1..Len(ds) : \A j \in i..Len(ds) : ds[j] = 0}))

\* a non-negative decimal: integer part and fraction
Dec(ip, fp) == [ip |-> StripLeading(ip), fp |-> StripTrailing(fp)]

\* the digits ds with the point after the first p of them
Shifted(ds, p) ==
    IF p <= 0 THEN Dec(<<>>, Zeros(-p) \o ds)
    ELSE IF p >= Len(ds) THEN Dec(ds \o Zeros(p - Len(ds)), <<>>)
    ELSE Dec(SubSeq(ds, 1, p), SubSeq(ds, p + 1, Len(ds)))

\* a < b, for natural numbers
Less(a, b) ==
    \/ Len(a) < Len(b)
    \/ /\ Len(a) = Len(b)
       /\ \E i \in 1..Len(a) : a[i] < b[i] /\ \A j \in 1..(i - 1) : a[j] = b[j]

\* ds + 1: the last digit that is no 9 goes up, the 9s after it become 0
Inc(ds) ==
    IF \A i \in 1..Len(ds) : ds[i] = 9 THEN <<1>> \o Zeros(Len(ds))
    ELSE [i \in 1..Len(ds) |->
            IF \E j \in (i + 1)..Len(ds) : ds[j] # 9 THEN ds[i]
            ELSE IF ds[i] = 9 THEN 0
            ELSE ds[i] + 1]

\* the fraction fp is more than a half, or a half next to an odd ip
RoundsUp(ip, fp) ==
    /\ fp # <<>>
    /\ \/ fp[1] > 5
       \/ fp[1] = 5 /\ (Len(fp) > 1 \/ (ip # <<>> /\ ip[Len(ip)] % 2 = 1))

\* the integer nearest to ip.fp, a tie going to the even one
Rounded(ip, fp) == IF RoundsUp(ip, fp) THEN Inc(ip) ELSE ip

\* twice the digits, one digit more in front: a digit's carry comes from
\* the digit after it alone
DblDigits(ds) ==
    [j \in 1..(Len(ds) + 1) |->
        ((IF j = 1 THEN 0 ELSE 2 * ds[j - 1])
         + (IF j <= Len(ds) /\ ds[j] >= 5 THEN 1 ELSE 0)) % 10]

\* half the digits, one digit more at the end
HlvDigits(ds) ==
    [j \in 1..(Len(ds) + 1) |->
        (IF j <= Len(ds) THEN ds[j] \div 2 ELSE 0)
        + (IF j > 1 /\ ds[j - 1] % 2 = 1 THEN 5 ELSE 0)]

\* 2 * x and x / 2, exactly
Dbl(x) == Shifted(DblDigits(x.ip \o x.fp), Len(x.ip) + 1)

Hlv(x) == Shifted(HlvDigits(x.ip \o x.fp), Len(x.ip))

Dbl8(x) == Dbl(Dbl(Dbl(Dbl(Dbl(Dbl(Dbl(Dbl(x))))))))

Hlv8(x) == Hlv(Hlv(Hlv(Hlv(Hlv(Hlv(Hlv(Hlv(x))))))))

\* 2^44, 2^52, 2^53 and 2^61
P44 == <<1, 7, 5, 9, 2, 1, 8, 6, 0, 4, 4, 4, 1, 6>>

P52 == <<4, 5, 0, 3, 5, 9, 9, 6, 2, 7, 3, 7, 0, 4, 9, 6>>

P53 == <<9, 0, 0, 7, 1, 9, 9, 2, 5, 4, 7, 4, 0, 9, 9, 2>>

P61 == <<2, 3, 0, 5, 8, 4, 3, 0, 0, 9, 2, 1, 3, 6, 9, 3, 9, 5, 2>>

RECURSIVE Scaled(_, _)
\* x * 2^(-e) with 2^52 <= integer part < 2^53: the 53 bits of the mantissa
\* before the point; e stops at -1074, the exponent of the subnormal numbers
Scaled(x, e) ==
    IF ~Less(x.ip, P61) THEN Scaled(Hlv8(x), e + 8)
    ELSE IF ~Less(x.ip, P53) THEN Scaled(Hlv(x), e + 1)
    ELSE IF e - 8 >= -1074 /\ Less(x.ip, P44) THEN Scaled(Dbl8(x), e - 8)
    ELSE IF e > -1074 /\ Less(x.ip, P52) THEN Scaled(Dbl(x), e - 1)
    ELSE [x |-> x, e |-> e]

RECURSIVE Unscaled(_, _)
\* x * 2^e
Unscaled(x, e) ==
    IF x.ip = <<>> /\ x.fp = <<>> THEN x
    ELSE IF e >= 8 THEN Unscaled(Dbl8(x), e - 8)
    ELSE IF e > 0 THEN Unscaled(Dbl(x), e - 1)
    ELSE IF e <= -8 THEN Unscaled(Hlv8(x), e + 8)
    ELSE IF e < 0 THEN Unscaled(Hlv(x), e + 1)
    ELSE x

----------------------------------------------------------------------------
(* Values *)

None == [t |-> "null"]

JBool(b) == [t |-> "bool", b |-> b]

\* the int of a sign and the digits of a magnitude; there is no negative 0
IntOf(neg, ip) == [t |-> "int", neg |-> neg /\ ip # <<>>, ip |-> ip]

JInt(n) == IntOf(n < 0, NatDigits(IF n < 0 THEN -n ELSE n))

JFloat(neg, x) == [t |-> "float", neg |-> neg, ip |-> x.ip, fp |-> x.fp]

JInf(neg) == [t |-> "inf", neg |-> neg]

\* float("nan"), and the NaN literal that json.loads accepts
JNaN == [t |-> "nan"]

\* the double with mantissa m and exponent e: m * 2^e, inf from 2^1024 on
OfMantissa(neg, m, e) ==
    IF e > 971 \/ (e = 971 /\ ~Less(m, P53)) THEN JInf(neg)
    ELSE JFloat(neg, Unscaled([ip |-> m, fp |-> <<>>], e))

OfScaled(neg, s) == OfMantissa(neg, Rounded(s.x.ip, s.x.fp), s.e)

\* the float nearest to the decimal x, a tie going to the even mantissa
Binary64(neg, x) ==
    IF x.fp = <<>> /\ Less(x.ip, P53) THEN JFloat(neg, x)
    ELSE OfScaled(neg, Scaled(x, 0))

\* the float a JSON text writes as n / 10^d
JNum(n, d) ==
    Binary64(n < 0, Shifted(NatDigits(IF n < 0 THEN -n ELSE n),
                            Len(NatDigits(IF n < 0 THEN -n ELSE n)) - d))

\* the exception a function raised instead of returning
Raise(e, msg) == [t |-> "raise", e |-> e, msg |-> msg]

IsRaise(x) == x.t = "raise"

JStr(chars) == [t |-> "str", s |-> chars]

JText(chunk) == [t |-> "str", s |-> <<chunk>>]

JList(items) == [t |-> "list", items |-> items]

JObj(kv) == [t |-> "obj", kv |-> kv]

EmptyDict == JObj(<<>>)

IsNone(x) == x.t = "null"

IsDict(x) == x.t = "obj"

IsList(x) == x.t = "list"

\* key in d
HasKey(d, k) == \E i \in 1..Len(d.kv) : d.kv[i][1] = k

\* d.get(k): the value under k, None when the key is missing
Get(d, k) ==
    IF HasKey(d, k)
    THEN d.kv[CHOOSE i \in 1..Len(d.kv) : d.kv[i][1] = k][2]
    ELSE None

\* d[k] = v: replaces the value in place, or appends the key
SetKey(d, k, v) ==
    IF HasKey(d, k)
    THEN JObj([i \in 1..Len(d.kv) |->
                 IF d.kv[i][1] = k THEN <<k, v>> ELSE d.kv[i]])
    ELSE JObj(Append(d.kv, <<k, v>>))

\* d.setdefault(k, v)
SetDefault(d, k, v) == IF HasKey(d, k) THEN d ELSE SetKey(d, k, v)

\* list(d.values()), in insertion order
Values(d) == [i \in 1..Len(d.kv) |-> d.kv[i][2]]

\* Python truthiness, as used by `x or y`
Truthy(x) ==
    CASE x.t = "null"  -> FALSE
      [] x.t = "bool"  -> x.b
      [] x.t = "int"   -> x.ip # <<>>
      [] x.t = "float" -> x.ip # <<>> \/ x.fp # <<>>
      [] x.t = "inf"   -> TRUE
      [] x.t = "nan"   -> TRUE
      [] x.t = "str"   -> x.s # <<>>
      [] x.t = "list"  -> x.items # <<>>
      [] x.t = "obj"   -> x.kv # <<>>

\* x or y
Or(x, y) == IF Truthy(x) THEN x ELSE y

\* the magnitude of an int, a bool or a finite float, as a decimal
Magnitude(v) ==
    CASE v.t = "int"   -> [ip |-> v.ip, fp |-> <<>>]
      [] v.t = "bool"  -> [ip |-> IF v.b THEN <<1>> ELSE <<>>, fp |-> <<>>]
      [] v.t = "float" -> [ip |-> v.ip, fp |-> v.fp]

\* v <= n for a number v and a natural number n
Leq(v, n) ==
    CASE v.t = "nan" -> FALSE
      [] v.t = "inf" -> v.neg
      [] OTHER ->
            \/ v.t # "bool" /\ v.neg
            \/ Less(Magnitude(v).ip, NatDigits(n))
            \/ Magnitude(v).ip = NatDigits(n) /\ Magnitude(v).fp = <<>>

\* 0 <= v for a number v (-0.0 is 0)
Geq0(v) ==
    CASE v.t = "nan" -> FALSE
      [] v.t = "inf" -> ~v.neg
      [] OTHER -> v.t = "bool" \/ ~v.neg \/ (Magnitude(v).ip = <<>> /\ Magnitude(v).fp = <<>>)

----------------------------------------------------------------------------
(* Strings: str.strip(), str.lower(), str.splitlines(), str.split(",") *)

\* the decimal digits of ASCII
AsciiDigits == <<"0", "1", "2", "3", "4", "5", "6", "7", "8", "9">>

\* the decimal digits of the other scripts (Unicode 14), which float() and
\* \d read as well: each run from its 0 to its 9
DigitRuns ==
    <<
       <<"U+0660", "U+0661", "U+0662", "U+0663", "U+0664",
         "U+0665", "U+0666", "U+0667", "U+0668", "U+0669">>,
       <<"U+06F0", "U+06F1", "U+06F2", "U+06F3", "U+06F4",
         "U+06F5", "U+06F6", "U+06F7", "U+06F8", "U+06F9">>,
       <<"U+07C0", "U+07C1", "U+07C2", "U+07C3", "U+07C4",
         "U+07C5", "U+07C6", "U+07C7", "U+07C8", "U+07C9">>,
       <<"U+0966", "U+0967", "U+0968", "U+0969", "U+096A",
         "U+096B", "U+096C", "U+096D", "U+096E", "U+096F">>,
       <<"U+09E6", "U+09E7", "U+09E8", "U+09E9", "U+09EA",
         "U+09EB", "U+09EC", "U+09ED", "U+09EE", "U+09EF">>,
       <<"U+0A66", "U+0A67", "U+0A68", "U+0A69", "U+0A6A",
         "U+0A6B", "U+0A6C", "U+0A6D", "U+0A6E", "U+0A6F">>,
       <<"U+0AE6", "U+0AE7", "U+0AE8", "U+0AE9", "U+0AEA",
         "U+0AEB", "U+0AEC", "U+0AED", "U+0AEE", "U+0AEF">>,
       <<"U+0B66", "U+0B67", "U+0B68", "U+0B69", "U+0B6A",
         "U+0B6B", "U+0B6C", "U+0B6D", "U+0B6E", "U+0B6F">>,
       <<"U+0BE6", "U+0BE7", "U+0BE8", "U+0BE9", "U+0BEA",
         "U+0BEB", "U+0BEC", "U+0BED", "U+0BEE", "U+0BEF">>,
       <<"U+0C66", "U+0C67", "U+0C68", "U+0C69", "U+0C6A",
         "U+0C6B", "U+0C6C", "U+0C6D", "U+0C6E", "U+0C6F">>,
       <<"U+0CE6", "U+0CE7", "U+0CE8", "U+0CE9", "U+0CEA",
         "U+0CEB", "U+0CEC", "U+0CED", "U+0CEE", "U+0CEF">>,
       <<"U+0D66", "U+0D67", "U+0D68", "U+0D69", "U+0D6A",
         "U+0D6B", "U+0D6C", "U+0D6D", "U+0D6E", "U+0D6F">>,
       <<"U+0DE6", "U+0DE7", "U+0DE8", "U+0DE9", "U+0DEA",
         "U+0DEB", "U+0DEC", "U+0DED", "U+0DEE", "U+0DEF">>,
       <<"U+0E50", "U+0E51", "U+0E52", "U+0E53", "U+0E54",
         "U+0E55", "U+0E56", "U+0E57", "U+0E58", "U+0E59">>,
       <<"U+0ED0", "U+0ED1", "U+0ED2", "U+0ED3", "U+0ED4",
         "U+0ED5", "U+0ED6", "U+0ED7", "U+0ED8", "U+0ED9">>,
       <<"U+0F20", "U+0F21", "U+0F22", "U+0F23", "U+0F24",
         "U+0F25", "U+0F26", "U+0F27", "U+0F28", "U+0F29">>,
       <<"U+1040", "U+1041", "U+1042", "U+1043", "U+1044",
         "U+1045", "U+1046", "U+1047", "U+1048", "U+1049">>,
       <<"U+1090", "U+1091", "U+1092", "U+1093", "U+1094",
         "U+1095", "U+1096", "U+1097", "U+1098", "U+1099">>,
       <<"U+17E0", "U+17E1", "U+17E2", "U+17E3", "U+17E4",
         "U+17E5", "U+17E6", "U+17E7", "U+17E8", "U+17E9">>,
       <<"U+1810", "U+1811", "U+1812", "U+1813", "U+1814",
         "U+1815", "U+1816", "U+1817", "U+1818", "U+1819">>,
       <<"U+1946", "U+1947", "U+1948", "U+1949", "U+194A",
         "U+194B", "U+194C", "U+194D", "U+194E", "U+194F">>,
       <<"U+19D0", "U+19D1", "U+19D2", "U+19D3", "U+19D4",
         "U+19D5", "U+19D6", "U+19D7", "U+19D8", "U+19D9">>,
       <<"U+1A80", "U+1A81", "U+1A82", "U+1A83", "U+1A84",
         "U+1A85", "U+1A86", "U+1A87", "U+1A88", "U+1A89">>,
       <<"U+1A90", "U+1A91", "U+1A92", "U+1A93", "U+1A94",
         "U+1A95", "U+1A96", "U+1A97", "U+1A98", "U+1A99">>,
       <<"U+1B50", "U+1B51", "U+1B52", "U+1B53", "U+1B54",
         "U+1B55", "U+1B56", "U+1B57", "U+1B58", "U+1B59">>,
       <<"U+1BB0", "U+1BB1", "U+1BB2", "U+1BB3", "U+1BB4",
         "U+1BB5", "U+1BB6", "U+1BB7", "U+1BB8", "U+1BB9">>,
       <<"U+1C40", "U+1C41", "U+1C42", "U+1C43", "U+1C44",
         "U+1C45", "U+1C46", "U+1C47", "U+1C48", "U+1C49">>,
       <<"U+1C50", "U+1C51", "U+1C52", "U+1C53", "U+1C54",
         "U+1C55", "U+1C56", "U+1C57", "U+1C58", "U+1C59">>,
       <<"U+A620", "U+A621", "U+A622", "U+A623", "U+A624",
         "U+A625", "U+A626", "U+A627", "U+A628", "U+A629">>,
       <<"U+A8D0", "U+A8D1", "U+A8D2", "U+A8D3", "U+A8D4",
         "U+A8D5", "U+A8D6", "U+A8D7", "U+A8D8", "U+A8D9">>,
       <<"U+A900", "U+A901", "U+A902", "U+A903", "U+A904",
         "U+A905", "U+A906", "U+A907", "U+A908", "U+A909">>,
       <<"U+A9D0", "U+A9D1", "U+A9D2", "U+A9D3", "U+A9D4",
         "U+A9D5", "U+A9D6", "U+A9D7", "U+A9D8", "U+A9D9">>,
       <<"U+A9F0", "U+A9F1", "U+A9F2", "U+A9F3", "U+A9F4",
         "U+A9F5", "U+A9F6", "U+A9F7", "U+A9F8", "U+A9F9">>,
       <<"U+AA50", "U+AA51", "U+AA52", "U+AA53", "U+AA54",
         "U+AA55", "U+AA56", "U+AA57", "U+AA58", "U+AA59">>,
       <<"U+ABF0", "U+ABF1", "U+ABF2", "U+ABF3", "U+ABF4",
         "U+ABF5", "U+ABF6", "U+ABF7", "U+ABF8", "U+ABF9">>,
       <<"U+FF10", "U+FF11", "U+FF12", "U+FF13", "U+FF14",
         "U+FF15", "U+FF16", "U+FF17", "U+FF18", "U+FF19">>,
       <<"U+104A0", "U+104A1", "U+104A2", "U+104A3", "U+104A4",
         "U+104A5", "U+104A6", "U+104A7", "U+104A8", "U+104A9">>,
       <<"U+10D30", "U+10D31", "U+10D32", "U+10D33", "U+10D34",
         "U+10D35", "U+10D36", "U+10D37", "U+10D38", "U+10D39">>,
       <<"U+11066", "U+11067", "U+11068", "U+11069", "U+1106A",
         "U+1106B", "U+1106C", "U+1106D", "U+1106E", "U+1106F">>,
       <<"U+110F0", "U+110F1", "U+110F2", "U+110F3", "U+110F4",
         "U+110F5", "U+110F6", "U+110F7", "U+110F8", "U+110F9">>,
       <<"U+11136", "U+11137", "U+11138", "U+11139", "U+1113A",
         "U+1113B", "U+1113C", "U+1113D", "U+1113E", "U+1113F">>,
       <<"U+111D0", "U+111D1", "U+111D2", "U+111D3", "U+111D4",
         "U+111D5", "U+111D6", "U+111D7", "U+111D8", "U+111D9">>,
       <<"U+112F0", "U+112F1", "U+112F2", "U+112F3", "U+112F4",
         "U+112F5", "U+112F6", "U+112F7", "U+112F8", "U+112F9">>,
       <<"U+11450", "U+11451", "U+11452", "U+11453", "U+11454",
         "U+11455", "U+11456", "U+11457", "U+11458", "U+11459">>,
       <<"U+114D0", "U+114D1", "U+114D2", "U+114D3", "U+114D4",
         "U+114D5", "U+114D6", "U+114D7", "U+114D8", "U+114D9">>,
       <<"U+11650", "U+11651", "U+11652", "U+11653", "U+11654",
         "U+11655", "U+11656", "U+11657", "U+11658", "U+11659">>,
       <<"U+116C0", "U+116C1", "U+116C2", "U+116C3", "U+116C4",
         "U+116C5", "U+116C6", "U+116C7", "U+116C8", "U+116C9">>,
       <<"U+11730", "U+11731", "U+11732", "U+11733", "U+11734",
         "U+11735", "U+11736", "U+11737", "U+11738", "U+11739">>,
       <<"U+118E0", "U+118E1", "U+118E2", "U+118E3", "U+118E4",
         "U+118E5", "U+118E6", "U+118E7", "U+118E8", "U+118E9">>,
       <<"U+11950", "U+11951", "U+11952", "U+11953", "U+11954",
         "U+11955", "U+11956", "U+11957", "U+11958", "U+11959">>,
       <<"U+11C50", "U+11C51", "U+11C52", "U+11C53", "U+11C54",
         "U+11C55", "U+11C56", "U+11C57", "U+11C58", "U+11C59">>,
       <<"U+11D50", "U+11D51", "U+11D52", "U+11D53", "U+11D54",
         "U+11D55", "U+11D56", "U+11D57", "U+11D58", "U+11D59">>,
       <<"U+11DA0", "U+11DA1", "U+11DA2", "U+11DA3", "U+11DA4",
         "U+11DA5", "U+11DA6", "U+11DA7", "U+11DA8", "U+11DA9">>,
       <<"U+16A60", "U+16A61", "U+16A62", "U+16A63", "U+16A64",
         "U+16A65", "U+16A66", "U+16A67", "U+16A68", "U+16A69">>,
       <<"U+16AC0", "U+16AC1", "U+16AC2", "U+16AC3", "U+16AC4",
         "U+16AC5", "U+16AC6", "U+16AC7", "U+16AC8", "U+16AC9">>,
       <<"U+16B50", "U+16B51", "U+16B52", "U+16B53", "U+16B54",
         "U+16B55", "U+16B56", "U+16B57", "U+16B58", "U+16B59">>,
       <<"U+1D7CE", "U+1D7CF", "U+1D7D0", "U+1D7D1", "U+1D7D2",
         "U+1D7D3", "U+1D7D4", "U+1D7D5", "U+1D7D6", "U+1D7D7">>,
       <<"U+1D7D8", "U+1D7D9", "U+1D7DA", "U+1D7DB", "U+1D7DC",
         "U+1D7DD", "U+1D7DE", "U+1D7DF", "U+1D7E0", "U+1D7E1">>,
       <<"U+1D7E2", "U+1D7E3", "U+1D7E4", "U+1D7E5", "U+1D7E6",
         "U+1D7E7", "U+1D7E8", "U+1D7E9", "U+1D7EA", "U+1D7EB">>,
       <<"U+1D7EC", "U+1D7ED", "U+1D7EE", "U+1D7EF", "U+1D7F0",
         "U+1D7F1", "U+1D7F2", "U+1D7F3", "U+1D7F4", "U+1D7F5">>,
       <<"U+1D7F6", "U+1D7F7", "U+1D7F8", "U+1D7F9", "U+1D7FA",
         "U+1D7FB", "U+1D7FC", "U+1D7FD", "U+1D7FE", "U+1D7FF">>,
       <<"U+1E140", "U+1E141", "U+1E142", "U+1E143", "U+1E144",
         "U+1E145", "U+1E146", "U+1E147", "U+1E148", "U+1E149">>,
       <<"U+1E2F0", "U+1E2F1", "U+1E2F2", "U+1E2F3", "U+1E2F4",
         "U+1E2F5", "U+1E2F6", "U+1E2F7", "U+1E2F8", "U+1E2F9">>,
       <<"U+1E950", "U+1E951", "U+1E952", "U+1E953", "U+1E954",
         "U+1E955", "U+1E956", "U+1E957", "U+1E958", "U+1E959">>,
       <<"U+1FBF0", "U+1FBF1", "U+1FBF2", "U+1FBF3", "U+1FBF4",
         "U+1FBF5", "U+1FBF6", "U+1FBF7", "U+1FBF8", "U+1FBF9">>
    >>

Digits ==
    {AsciiDigits[k] : k \in 1..10}
    \cup {DigitRuns[r][k] : r \in 1..Len(DigitRuns), k \in 1..10}

\* the value of a decimal digit
DigitVal(c) ==
    CASE c = "0" -> 0 [] c = "1" -> 1 [] c = "2" -> 2 [] c = "3" -> 3
      [] c = "4" -> 4 [] c = "5" -> 5 [] c = "6" -> 6 [] c = "7" -> 7
      [] c = "8" -> 8 [] c = "9" -> 9
      [] OTHER ->
            (CHOOSE k \in 1..10 : \E r \in 1..Len(DigitRuns) : DigitRuns[r][k] = c) - 1

\* the characters str.isspace() accepts
Whitespace ==
    { " ", "\t", "\n", "\r", "\f", "U+000B", "U+001C", "U+001D", "U+001E",
      "U+001F", "U+0085", "U+00A0", "U+1680", "U+2000", "U+2001", "U+2002",
      "U+2003", "U+2004", "U+2005", "U+2006", "U+2007", "U+2008", "U+2009",
      "U+200A", "U+2028", "U+2029", "U+202F", "U+205F", "U+3000" }

\* the characters that end a line for str.splitlines()
LineBreaks ==
    { "\n", "\r", "\f", "U+000B", "U+001C", "U+001D", "U+001E", "U+0085",
      "U+2028", "U+2029" }

\* str.strip(): s without the whitespace at its two ends
Strip(s) ==
    SubSeq(s,
           Cardinality({i \in 1..Len(s) : \A j \in 1..i : s[j] \in Whitespace}) + 1,
           Len(s) - Cardinality({i \in 1..Len(s) : \A j \in i..Len(s) : s[j] \in Whitespace}))

\* the upper-case form of the letters of null, nan, inf and infinity
UpperOf(c) ==
    CASE c = "a" -> "A" [] c = "f" -> "F" [] c = "i" -> "I" [] c = "l" -> "L"
      [] c = "n" -> "N" [] c = "t" -> "T" [] c = "u" -> "U" [] c = "y" -> "Y"

\* s.lower() == w, for a word w of these letters: no other character has
\* one of them as its lower-case form
IsWord(s, w) ==
    /\ Len(s) = Len(w)
    /\ \A i \in 1..Len(w) : s[i] \in {w[i], UpperOf(w[i])}

\* after a line break at i: "\r\n" is one break
AfterBreak(text, i) ==
    IF text[i] = "\r" /\ i < Len(text) /\ text[i + 1] = "\n" THEN i + 2 ELSE i + 1

\* the first index from start on where s has a character of X, Len(s) + 1
\* when it has none
Find(s, start, X) ==
    start + Cardinality({i \in start..Len(s) : \A j \in start..i : s[j] \notin X})

RECURSIVE SplitLinesFrom(_, _)
\* the lines of text from start on: a text that ends with a line break has
\* no empty line after it
SplitLinesFrom(text, start) ==
    IF start > Len(text) THEN <<>>
    ELSE IF Find(text, start, LineBreaks) > Len(text)
    THEN <<SubSeq(text, start, Len(text))>>
    ELSE <<SubSeq(text, start, Find(text, start, LineBreaks) - 1)>>
         \o SplitLinesFrom(text, AfterBreak(text, Find(text, start, LineBreaks)))

\* str.splitlines()
SplitLines(text) == SplitLinesFrom(text, 1)

RECURSIVE SplitFrom(_, _, _)
\* the parts of s from start on: a separator at the end has an empty part
\* after it
SplitFrom(s, sep, start) ==
    IF Find(s, start, {sep}) > Len(s) THEN <<SubSeq(s, start, Len(s))>>
    ELSE <<SubSeq(s, start, Find(s, start, {sep}) - 1)>>
         \o SplitFrom(s, sep, Find(s, start, {sep}) + 1)

\* s.split(sep) for a separator of one character
Split(s, sep) == SplitFrom(s, sep, 1)

----------------------------------------------------------------------------
(* safe_float, safe_int_0_100, label_fng *)

AllDigits(s) == \A i \in 1..Len(s) : s[i] \in Digits

DigitsOf(s) == [i \in 1..Len(s) |-> DigitVal(s[i])]

\* float(s) of a text that is not a number (the message goes on with the
\* text; line 41 catches the exception and nobody reads it)
ValueError == Raise("ValueError", "could not convert string to float")

\* the float of the significant digits sig with the point after the first p
\* of them: 0.sig * 10^p, which is inf from 10^310 on and 0 below 10^-330
FloatOfDigits(neg, sig, p) ==
    IF sig = <<>> THEN JFloat(neg, Dec(<<>>, <<>>))
    ELSE IF p > 310 THEN JInf(neg)
    ELSE IF p < -330 THEN JFloat(neg, Dec(<<>>, <<>>))
    ELSE Binary64(neg, Shifted(sig, p))

\* a < b, for ints
Before(a, b) ==
    IF a.neg # b.neg THEN a.neg
    ELSE IF a.neg THEN Less(b.ip, a.ip)
    ELSE Less(a.ip, b.ip)

\* l + ex for a number l and an int ex of any size; 311 stands for every
\* sum above 310 and -331 for every sum below -330
Point(l, ex) ==
    IF Before(JInt(310 - l), ex) THEN 311
    ELSE IF Before(ex, JInt(-330 - l)) THEN -331
    ELSE l + (IF ex.neg THEN -NatValue(ex.ip) ELSE NatValue(ex.ip))

\* the float of ip.fp * 10^ex, for an int ex
FloatOfLiteral(neg, ip, fp, ex) ==
    FloatOfDigits(neg, StripTrailing(StripLeading(ip \o fp)),
                  Point(Len(ip) - (Len(ip \o fp) - Len(StripLeading(ip \o fp))), ex))

\* digits [. digits] or . digits, times 10^ex
ParseMantissa(neg, m, dots, ex) ==
    IF Cardinality(dots) > 1 THEN ValueError
    ELSE IF dots = {}
    THEN IF m # <<>> /\ AllDigits(m)
         THEN FloatOfLiteral(neg, DigitsOf(m), <<>>, ex)
         ELSE ValueError
    ELSE IF /\ AllDigits(SubSeq(m, 1, (CHOOSE i \in dots : TRUE) - 1))
            /\ AllDigits(SubSeq(m, (CHOOSE i \in dots : TRUE) + 1, Len(m)))
            /\ Len(m) > 1
    THEN FloatOfLiteral(neg,
                        DigitsOf(SubSeq(m, 1, (CHOOSE i \in dots : TRUE) - 1)),
                        DigitsOf(SubSeq(m, (CHOOSE i \in dots : TRUE) + 1, Len(m))),
                        ex)
    ELSE ValueError

\* the digits of an exponent, without its sign
ExponentDigits(ex) == IF ex # <<>> /\ ex[1] \in {"+", "-"} THEN Tail(ex) ELSE ex

\* the exponent, as an int
ExponentOf(ex) == IntOf(ex[1] = "-", StripLeading(DigitsOf(ExponentDigits(ex))))

\* mantissa [e|E [sign] digits], the exponent marks of body being at marks
ParseDecimal(neg, body, marks) ==
    IF marks = {}
    THEN ParseMantissa(neg, body, {i \in 1..Len(body) : body[i] = "."}, JInt(0))
    ELSE IF /\ Cardinality(marks) = 1
            /\ ExponentDigits(SubSeq(body, (CHOOSE i \in marks : TRUE) + 1, Len(body))) # <<>>
            /\ AllDigits(ExponentDigits(SubSeq(body, (CHOOSE i \in marks : TRUE) + 1, Len(body))))
    THEN ParseMantissa(neg, SubSeq(body, 1, (CHOOSE i \in marks : TRUE) - 1),
                       {i \in 1..((CHOOSE j \in marks : TRUE) - 1) : body[i] = "."},
                       ExponentOf(SubSeq(body, (CHOOSE i \in marks : TRUE) + 1, Len(body))))
    ELSE ValueError

\* inf, infinity and nan in any case, or a decimal literal
ParseSigned(neg, body) ==
    IF IsWord(body, <<"i", "n", "f">>)
       \/ IsWord(body, <<"i", "n", "f", "i", "n", "i", "t", "y">>)
    THEN JInf(neg)
    ELSE IF IsWord(body, <<"n", "a", "n">>) THEN JNaN
    ELSE ParseDecimal(neg, body, {i \in 1..Len(body) : body[i] \in {"e", "E"}})

\* an underscore may stand between two digits, and nowhere else
UnderscoresOk(s) ==
    \A i \in 1..Len(s) :
        s[i] = "_" => (i > 1 /\ i < Len(s) /\ s[i - 1] \in Digits /\ s[i + 1] \in Digits)

\* float(s) for a stripped string
ParseFloat(s) ==
    IF ~UnderscoresOk(s) THEN ValueError
    ELSE IF s # <<>> /\ s[1] \in {"-", "+"}
    THEN ParseSigned(s[1] = "-", Tail(SelectSeq(s, LAMBDA c : c # "_")))
    ELSE ParseSigned(FALSE, SelectSeq(s, LAMBDA c : c # "_"))

\* float(x) of an int: OverflowError from 2^1024 on
FloatOfInt(x) ==
    IF Binary64(x.neg, [ip |-> x.ip, fp |-> <<>>]).t = "inf"
    THEN Raise("OverflowError", "int too large to convert to float")
    ELSE Binary64(x.neg, [ip |-> x.ip, fp |-> <<>>])

\* lines 37-40, for s = str(x).strip()
FloatOfStripped(s) ==
    IF s = <<>> \/ IsWord(s, <<"n", "u", "l", "l">>) THEN None ELSE ParseFloat(s)

\* except Exception: return None
Caught(v) == IF IsRaise(v) THEN None ELSE v

safe_float(x) ==
    CASE x.t = "null" -> None
      [] x.t = "int"  -> Caught(FloatOfInt(x))
      [] x.t \in {"float", "inf", "nan"} -> x
      [] x.t = "bool" -> JFloat(FALSE, Magnitude(x))
      [] x.t = "str"  -> Caught(FloatOfStripped(Strip(x.s)))
      [] OTHER -> None      \* float(str(a list or dict)) raises ValueError

\* int(round(v)) of a float: a tie goes to the even integer; NaN and the
\* infinities raise
RoundHalfEven(f) ==
    CASE f.t = "nan" -> Raise("ValueError", "cannot convert float NaN to integer")
      [] f.t = "inf" -> Raise("OverflowError", "cannot convert float infinity to integer")
      [] OTHER -> IntOf(f.neg, Rounded(f.ip, f.fp))

\* v if 0 <= v <= 100
In0_100(v) == IF Geq0(v) /\ Leq(v, 100) THEN v ELSE None

\* lines 47-52, for v = safe_float(x)
IntOfFloat(f) ==
    IF IsNone(f) THEN None
    ELSE IF IsRaise(RoundHalfEven(f)) THEN RoundHalfEven(f)
    ELSE In0_100(RoundHalfEven(f))

safe_int_0_100(x) == IntOfFloat(safe_float(x))

\* the bins with the breakpoints on the other side
label_fng_Strict(v) ==
    IF IsNone(v) THEN None
    ELSE IF Leq(v, 23) THEN JText("Ekstrem frygt")
    ELSE IF Leq(v, 43) THEN JText("Frygt")
    ELSE IF Leq(v, 53) THEN JText("Neutral")
    ELSE IF Leq(v, 73) THEN JText("Grådighed")
    ELSE JText("Ekstrem grådighed")

label_fng(v) ==
    IF IsNone(v) THEN None
    ELSE IF Leq(v, 24) THEN JText("Ekstrem frygt")
    ELSE IF Leq(v, 44) THEN JText("Frygt")
    ELSE IF Leq(v, 54) THEN JText("Neutral")
    ELSE IF Leq(v, 74) THEN JText("Grådighed")
    ELSE JText("Ekstrem grådighed")

----------------------------------------------------------------------------
(* _walk_find_numbers, _find_fng_from_graph_json *)

\* stack.pop(): the last element, and the stack without it
Top(stack) == stack[Len(stack)]

Pop(stack) == SubSeq(stack, 1, Len(stack) - 1)

\* v if it is not None (a value returned, or an exception that ends the
\* search), else w
Coalesce(v, w) == IF ~IsNone(v) THEN v ELSE w

\* nums.append(fv) if fv is not None
AppendNumber(nums, fv) == IF IsNone(fv) THEN nums ELSE Append(nums, fv)

RECURSIVE WalkNumbers(_, _)
\* the while loop of _walk_find_numbers: nums collected so far, the stack left
WalkNumbers(nums, stack) ==
    IF stack = <<>> THEN nums
    ELSE IF IsDict(Top(stack))
         THEN WalkNumbers(nums, Pop(stack) \o Values(Top(stack)))
    ELSE IF IsList(Top(stack))
         THEN WalkNumbers(nums, Pop(stack) \o Top(stack).items)
    ELSE WalkNumbers(AppendNumber(nums, safe_float(Top(stack))), Pop(stack))

_walk_find_numbers(obj) == WalkNumbers(<<>>, <<obj>>)

NowKeys == <<"value", "score", "index">>

RECURSIVE FirstNowValue(_, _, _)
\* for key in ("value", "score", "index"): the first safe_int_0_100(now.get(key))
\* that is not None; with mustHave, only the keys that are in now
FirstNowValue(now, keys, mustHave) ==
    IF keys = <<>> THEN None
    ELSE Coalesce(IF mustHave /\ ~HasKey(now, Head(keys)) THEN None
                  ELSE safe_int_0_100(Get(now, Head(keys))),
                  FirstNowValue(now, Tail(keys), mustHave))

\* the value under now, if now is a dict
NowValue(now, mustHave) ==
    IF IsDict(now) THEN FirstNowValue(now, NowKeys, mustHave) ELSE None

RECURSIVE FindNow(_)
\* strategy 1: the depth-first search for a dict whose "now" is a dict with a
\* usable value/score/index
FindNow(stack) ==
    IF stack = <<>> THEN None
    ELSE IF IsDict(Top(stack))
         THEN Coalesce(NowValue(Get(Top(stack), "now"), TRUE),
                       FindNow(Pop(stack) \o Values(Top(stack))))
    ELSE IF IsList(Top(stack))
         THEN FindNow(Pop(stack) \o Top(stack).items)
    ELSE FindNow(Pop(stack))

FngKeys == <<"fear_and_greed", "fearAndGreed", "fear_greed", "fearGreed">>

\* lines 150-159, for d = payload[key]
SpecificValue(d) ==
    Coalesce(NowValue(Get(d, "now"), FALSE),
             safe_int_0_100(Or(Or(Get(d, "score"), Get(d, "value")),
                               Get(d, "index"))))

RECURSIVE FindSpecific(_, _)
\* strategy 2: the known top-level keys, their "now" and their own score
FindSpecific(payload, keys) ==
    IF keys = <<>> THEN None
    ELSE Coalesce(IF HasKey(payload, Head(keys)) /\ IsDict(Get(payload, Head(keys)))
                  THEN SpecificValue(Get(payload, Head(keys)))
                  ELSE None,
                  FindSpecific(payload, Tail(keys)))

\* int(round(x)) of the first of the numbers that is in 0..100
FirstCandidate(cand) ==
    IF cand = <<>> THEN None ELSE RoundHalfEven(cand[1])

\* strategy 3: the first number in 0..100 among all number-like leaves
FindLastResort(payload) ==
    FirstCandidate(SelectSeq(_walk_find_numbers(payload),
                             LAMBDA x : Geq0(x) /\ Leq(x, 100)))

\* the scan of all numbers first, the strategies after it
_find_fng_from_graph_json_ScanFirst(payload) ==
    Coalesce(FindLastResort(payload),
        Coalesce(FindNow(<<payload>>),
                 IF IsDict(payload) THEN FindSpecific(payload, FngKeys) ELSE None))

_find_fng_from_graph_json(payload) ==
    Coalesce(FindNow(<<payload>>),
        Coalesce(IF IsDict(payload) THEN FindSpecific(payload, FngKeys) ELSE None,
                 FindLastResort(payload)))

----------------------------------------------------------------------------
(* The CNN page: the four regular expressions of fetch_fng_best_effort *)

(* The page text is a sequence of tokens, the pieces of text the patterns   *)
(* look for:                                                                *)
(*   "fg"     "fearAndGreed":{          "fg_"   "fear_and_greed":{          *)
(*   "now"    "now":{                   "close" }                           *)
(*   "value"  "value":<d>               "score" "score":<d>                 *)
(*   "text"   any other text, without braces                                *)
(* d is the run of digits that follows the colon (<<>> when something else  *)
(* than a digit follows it).                                                *)
Tok(k, d) == [k |-> k, d |-> d]

\* (\d{1,3}): at most three digits are captured
Capture(tok) == SubSeq(tok.d, 1, IF Len(tok.d) < 3 THEN Len(tok.d) ELSE 3)

\* the least element of a non-empty set of positions
Least(S) == CHOOSE i \in S : \A j \in S : i <= j

\* positions after `from` holding a token of kind k (with a digit, for a value)
After(html, from, k) ==
    {i \in (from + 1)..Len(html) :
        html[i].k = k /\ (k \in {"value", "score"} => html[i].d # <<>>)}

\* "fearAndGreed"\s*:\s*\{.*?"now"\s*:\s*\{.*?"value"\s*:\s*(\d{1,3})
\* (and the same with "fear_and_greed"): the capture, <<>> without a match
MatchKeyed(html, open) ==
    LET opens == After(html, 0, open)
        nows  == IF opens = {} THEN {} ELSE After(html, Least(opens), "now")
        vals  == IF nows = {} THEN {} ELSE After(html, Least(nows), "value")
    IN  IF vals = {} THEN <<>> ELSE Capture(html[Least(vals)])

\* "now"\s*:\s*\{[^}]*?"value"\s*:\s*(\d{1,3})
MatchNow(html) ==
    LET hit(j) == {l \in After(html, j, "value") :
                      \A m \in (j + 1)..(l - 1) : html[m].k # "close"}
        nows   == {j \in After(html, 0, "now") : hit(j) # {}}
    IN  IF nows = {} THEN <<>> ELSE Capture(html[Least(hit(Least(nows)))])

\* "score"\s*:\s*(\d{1,3})
MatchScore(html) ==
    LET scores == After(html, 0, "score")
    IN  IF scores = {} THEN <<>> ELSE Capture(html[Least(scores)])

\* m.group(1) for each of the patterns, in the order of the list
PatternCaptures(html) ==
    << MatchKeyed(html, "fg"), MatchKeyed(html, "fg_"),
       MatchNow(html), MatchScore(html) >>

RECURSIVE FirstPageValue(_)
\* for p in patterns: the first capture that safe_int_0_100 accepts
FirstPageValue(caps) ==
    IF caps = <<>> THEN None
    ELSE Coalesce(IF Head(caps) = <<>> THEN None
                  ELSE safe_int_0_100(JStr(Head(caps))),
                  FirstPageValue(Tail(caps)))

----------------------------------------------------------------------------
(* The FRED CSV: fetch_vix_from_fred *)

(* The CSV text is a string: a sequence of characters.                      *)

\* ln.strip() for each of the lines
StripEach(lines) == [i \in 1..Len(lines) |-> Strip(lines[i])]

\* [ln.strip() for ln in csv_text.splitlines() if ln.strip()]
StrippedLines(csv_text) ==
    SelectSeq(StripEach(SplitLines(csv_text)), LAMBDA ln : ln # <<>>)

\* the decimal x rounded to n decimals, a tie going to the even digit
RoundedAt(x, n) ==
    Shifted(Rounded(x.ip \o SubSeq(x.fp \o Zeros(n), 1, n),
                    SubSeq(x.fp, n + 1, Len(x.fp))),
            Len(Rounded(x.ip \o SubSeq(x.fp \o Zeros(n), 1, n),
                        SubSeq(x.fp, n + 1, Len(x.fp)))) - n)

\* round(last_val, 2): the float nearest to the value of the float rounded
\* to two decimals; NaN and the infinities stay
Round2(f) ==
    IF f.t \in {"nan", "inf"} THEN f ELSE Binary64(f.neg, RoundedAt(f, 2))

\* len(parts) >= 2 and safe_float(parts[1]) is not None, for parts = ln.split(",")
Numeric(parts) == Len(parts) >= 2 /\ ~IsNone(safe_float(JStr(parts[2])))

\* the first line after the header with a numeric second part, 0 without one
ScanBack_First(lines, i) ==
    IF \E j \in 2..i : Numeric(Split(lines[j], ","))
    THEN CHOOSE j \in 2..i :
            /\ Numeric(Split(lines[j], ","))
            /\ \A l \in 2..(j - 1) : ~Numeric(Split(lines[l], ","))
    ELSE 0

RECURSIVE ScanBack(_, _)
\* for ln in reversed(lines[1:]): the first line with two parts or more whose
\* second part safe_float reads; 0 when there is none
ScanBack(lines, i) ==
    IF i < 2 THEN 0
    ELSE IF Numeric(Split(lines[i], ",")) THEN i
    ELSE ScanBack(lines, i - 1)

\* the reading of the parts of a line: the second rounded, the first
VixOfParts(parts) ==
    JObj(<< <<"value", Round2(safe_float(JStr(parts[2])))>>,
            <<"asof", JStr(parts[1])>>,
            <<"source", JText("FRED (VIXCLS)")>> >>)

VixAt(lines, i) == IF i = 0 THEN None ELSE VixOfParts(Split(lines[i], ","))

VixOfLines(lines) == VixAt(lines, ScanBack(lines, Len(lines)))

\* the reading fetch_vix_from_fred returns for a CSV text, None without one
VixReading(csv_text) == VixOfLines(StrippedLines(csv_text))

----------------------------------------------------------------------------
(* Constants of the script and bounds of the model *)

CNN_GRAPH_URL == "https://production.dataviz.cnn.io/index/fearandgreed/graphdata"

CNN_PAGE_URL == "https://edition.cnn.com/markets/fear-and-greed"

FRED_VIX_CSV == "https://fred.stlouisfed.org/graph/fredgraph.csv?id=VIXCLS"

\* merged_notes[-20:]
NotesKeep == 20

\* run_notes[:6]
RunNotesCap == 6

\* invocations of main() in one behaviour
MaxRuns == 2

\* the prior file holds up to NotesKeep + MaxPriorExtra notes
MaxPriorExtra == 2

\* the calendar days of the invocations, and their timestamps
Dates == << "2024-01-01", "2024-01-02", "2024-01-03", "2024-01-04",
            "2024-01-05", "2024-01-06" >>

Stamps == << "2024-01-01T06:00:00+00:00", "2024-01-02T06:00:00+00:00",
             "2024-01-03T06:00:00+00:00", "2024-01-04T06:00:00+00:00",
             "2024-01-05T06:00:00+00:00", "2024-01-06T06:00:00+00:00" >>

\* datetime.now(timezone.utc).date().isoformat() in invocation c
Today(c) == JText(Dates[c])

\* utc_now_iso() in invocation c
utc_now_iso(c) == JText(Stamps[c])

----------------------------------------------------------------------------
(* Snapshots and the file *)

DefaultFearGreed ==
    JObj(<< <<"value", None>>, <<"label", None>>,
            <<"asof", None>>, <<"source", None>> >>)

DefaultVix ==
    JObj(<< <<"value", None>>, <<"asof", None>>, <<"source", None>> >>)

\* the default structure load_existing_market returns
DefaultMarket ==
    JObj(<< <<"updatedAt", None>>, <<"fearGreed", DefaultFearGreed>>,
            <<"vix", DefaultVix>>, <<"notes", JList(<<>>)>> >>)

\* the file at MARKET_PATH: missing, text that is not JSON, the empty or
\* partial text of a write that did not finish, or the JSON text of doc
Absent == [kind |-> "absent", doc |-> None]

Garbage == [kind |-> "garbage", doc |-> None]

Truncated == [kind |-> "truncated", doc |-> None]

JsonFile(doc) == [kind |-> "json", doc |-> doc]

load_existing_market(f) == IF f.kind = "json" THEN f.doc ELSE DefaultMarket

\* the readings and notes a prior file may hold
PriorFearGreed ==
    JObj(<< <<"value", JInt(50)>>, <<"label", JText("Neutral")>>,
            <<"asof", JText("2023-12-29")>>,
            <<"source", JText("CNN (graphdata)")>> >>)

PriorVix ==
    JObj(<< <<"value", JNum(1345, 2)>>, <<"asof", JText("2023-12-29")>>,
            <<"source", JText("FRED (VIXCLS)")>> >>)

OldNotes(n) == JList([i \in 1..n |-> JText("old note")])

Market(fg, vx, notes) ==
    JObj(<< <<"updatedAt", JText("2023-12-30T06:00:00+00:00")>>,
            <<"fearGreed", fg>>, <<"vix", vx>>, <<"notes", notes>> >>)

PriorNoteCounts == {0} \cup ((NotesKeep - 1)..(NotesKeep + MaxPriorExtra))

\* snapshots of the shape main writes
WellFormedDocs ==
    { Market(fg, vx, OldNotes(n)) :
        fg \in {DefaultFearGreed, PriorFearGreed},
        vx \in {DefaultVix, PriorVix},
        n \in PriorNoteCounts }

\* values of other shapes that a hand-edited file may hold under a key
OddValues ==
    { None, JInt(0), JInt(7), JText("n/a"), EmptyDict, JList(<<JInt(1)>>) }

\* JSON of other shapes: one key missing or odd, an extra key, a string
\* that holds a lone surrogate (json.loads accepts it), not a dict
OddDocs ==
    { JObj(<< <<"vix", PriorVix>>, <<"notes", OldNotes(1)>> >>),
      JObj(<< <<"fearGreed", PriorFearGreed>>, <<"notes", OldNotes(1)>> >>),
      JObj(<< <<"fearGreed", PriorFearGreed>>, <<"vix", PriorVix>> >>),
      SetKey(Market(PriorFearGreed, PriorVix, OldNotes(1)), "owner", JText("me")),
      SetKey(Market(PriorFearGreed, PriorVix, OldNotes(1)), "owner", JStr(<<"U+DFFF">>)),
      Market(PriorFearGreed, PriorVix, JList(<<JStr(<<"U+D800">>)>>)),
      EmptyDict, JList(<<>>), None, JInt(3) }
    \cup { Market(x, PriorVix, OldNotes(1)) : x \in OddValues }
    \cup { Market(PriorFearGreed, x, OldNotes(1)) : x \in OddValues }
    \cup { Market(PriorFearGreed, PriorVix, x) : x \in OddValues }

PriorFiles ==
    {Absent, Garbage} \cup {JsonFile(d) : d \in WellFormedDocs \cup OddDocs}

----------------------------------------------------------------------------
(* Responses of the three endpoints *)

\* the exception of a request that failed (no connection, timeout, HTTP
\* error, body not JSON)
RequestFailed == Raise("ConnectionError", "connection refused")

\* a response: the request raised x, or it returned a body: a JSON value
\* from fetch_json, a text from fetch_text
Failed(x) == [st |-> "raised", exc |-> x, json |-> None, text |-> <<>>]

Raised == Failed(RequestFailed)

\* the note of an except clause: f"{prefix}: {type(e).__name__}: {e}"
FailNote(prefix, x) == JText(prefix \o ": " \o x.e \o ": " \o x.msg)

Json(b) == [st |-> "ok", exc |-> None, json |-> b, text |-> <<>>]

Text(b) == [st |-> "ok", exc |-> None, json |-> None, text |-> b]

\* no response: the request was not made
NotAsked == [st |-> "none", exc |-> None, json |-> None, text |-> <<>>]

Chars2(a, b) == <<a, b>>

GraphResponses ==
    { Raised,
      Json(JObj(<< <<"fear_and_greed",
                     JObj(<< <<"now", JObj(<< <<"value", JNum(616, 1)>> >>)>> >>)>> >>)),
      Json(JObj(<< <<"error", JText("blocked")>> >>)) }

PageResponses ==
    { Raised,
      Text(<< Tok("text", <<>>), Tok("fg", <<>>), Tok("now", <<>>),
              Tok("value", Chars2("3", "0")), Tok("close", <<>>) >>),
      Text(<< Tok("text", <<>>) >>) }

\* the header line of the FRED CSV, with its line break
CsvHeader == <<"D", "A", "T", "E", ",", "V", "I", "X", "C", "L", "S", "\r", "\n">>

\* the text of the date of day i of the month, 2024-01-0i
DateChars(i) ==
    <<"2", "0", "2", "4", "-", "0", "1", "-", "0">>
    \o <<AsciiDigits[i + 1]>>

\* a data line: a date and a value, with the line break
CsvLine(i, v) == DateChars(i) \o <<",">> \o v \o <<"\n">>

CsvResponses ==
    { Raised,
      Text(CsvHeader \o CsvLine(1, <<"1", "2", ".", "4", "7">>) \o CsvLine(2, <<".">>)),
      Text(CsvHeader) }

----------------------------------------------------------------------------
(* State *)

VARIABLES
    file,         \* the content of data/market.json
    pc,           \* where the invocation of main() stands
    clock,        \* invocations started so far
    existing,     \* main: what load_existing_market returned
    out,          \* main: the snapshot being built
    run_notes,    \* main: this run's notes
    fng,          \* main: what fetch_fng_best_effort returned
    vix,          \* main: what fetch_vix_from_fred returned
    requests,     \* the URLs this invocation has requested, in order
    graphIn,      \* the response the graphdata request got
    pageIn,       \* the response the page request got
    csvIn,        \* the response the FRED request got
    fileAtStart,  \* the file as this invocation found it
    writes,       \* calls of write_text this invocation completed
    lastFng,      \* history: fearGreed of the initial file, then the reading
                  \* of the latest completed run whose F&G fetch gave one
    lastVix,      \* history: the same for vix
    aborted       \* history: an earlier invocation ended by an exception
                  \* or was killed

vars == << file, pc, clock, existing, out, run_notes, fng, vix, requests,
           graphIn, pageIn, csvIn, fileAtStart, writes, lastFng, lastVix, aborted >>

locals == << existing, out, run_notes, fng, vix >>

\* the reading a file holds under key, the default structure's where it has
\* none (not JSON, not a dict, no such key)
ReadingOf(f, key, default) ==
    IF f.kind = "json" /\ IsDict(f.doc) /\ HasKey(f.doc, key)
    THEN Get(f.doc, key)
    ELSE default

Init ==
    /\ file \in PriorFiles
    /\ pc = "idle"
    /\ clock = 0
    /\ existing = None
    /\ out = None
    /\ run_notes = <<>>
    /\ fng = None
    /\ vix = None
    /\ requests = <<>>
    /\ graphIn = NotAsked
    /\ pageIn = NotAsked
    /\ csvIn = NotAsked
    /\ fileAtStart = file
    /\ writes = 0
    /\ lastFng = ReadingOf(file, "fearGreed", DefaultFearGreed)
    /\ lastVix = ReadingOf(file, "vix", DefaultVix)
    /\ aborted = FALSE

\* the process has ended: normally, by an exception, or killed
Ended == pc \in {"idle", "done", "crashed", "killed"}

----------------------------------------------------------------------------
(* main, lines 242-253: load, timestamp, ensure the structure *)

\* assigns the default structure instead of defaulting to it
EnsureStructure_Assign(d, now) ==
    SetKey(
        SetKey(
            SetDefault(SetKey(d, "updatedAt", now),
                       "notes", JList(<<>>)),
            "fearGreed", DefaultFearGreed),
        "vix", DefaultVix)

EnsureStructure(d, now) ==
    SetDefault(
        SetDefault(
            SetDefault(SetKey(d, "updatedAt", now),
                       "fearGreed", DefaultFearGreed),
            "vix", DefaultVix),
        "notes", JList(<<>>))

LoadStep(limit) ==
    /\ Ended
    /\ clock < limit
    /\ clock' = clock + 1
    /\ existing' = load_existing_market(file)
    /\ out' = EnsureStructure(IF IsDict(existing') THEN existing' ELSE EmptyDict,
                              utc_now_iso(clock'))
    /\ run_notes' = <<>>
    /\ fng' = None
    /\ vix' = None
    /\ requests' = <<>>
    /\ graphIn' = NotAsked
    /\ pageIn' = NotAsked
    /\ csvIn' = NotAsked
    /\ fileAtStart' = file
    /\ writes' = 0
    /\ pc' = "fngA"
    /\ aborted' = (aborted \/ pc \in {"crashed", "killed"})
    /\ UNCHANGED << file, lastFng, lastVix >>

Load == LoadStep(MaxRuns)

\* the first invocation only
LoadOnce == LoadStep(1)

----------------------------------------------------------------------------
(* fetch_fng_best_effort *)

FngReading(v, source, c) ==
    JObj(<< <<"value", v>>, <<"label", label_fng(v)>>,
            <<"asof", Today(c)>>, <<"source", JText(source)>> >>)

\* the note of the graph step when it gave no value: the request or the
\* extraction raised, or the extraction returned None
GraphNote(r, v) ==
    IF r.st # "ok" THEN FailNote("Fear&Greed graphdata failed", r.exc)
    ELSE IF IsRaise(v) THEN FailNote("Fear&Greed graphdata failed", v)
    ELSE JText("Fear&Greed: kunne ikke finde 0-100 i CNN graphdata.")

\* the graph step without its return: the page is tried after a value too
GraphStep_NoReturn(responses) ==
    /\ pc = "fngA"
    /\ \E r \in responses :
        \E v \in {IF r.st = "ok" THEN _find_fng_from_graph_json(r.json) ELSE None} :
            /\ graphIn' = r
            /\ requests' = Append(requests, CNN_GRAPH_URL)
            /\ IF ~IsNone(v) /\ ~IsRaise(v)
               THEN /\ fng' = FngReading(v, "CNN (graphdata)", clock)
                    /\ UNCHANGED run_notes
               ELSE /\ run_notes' = Append(run_notes, GraphNote(r, v))
                    /\ UNCHANGED fng
            /\ pc' = "fngB"
    /\ UNCHANGED << file, clock, existing, out, vix, pageIn, csvIn,
                    fileAtStart, writes, lastFng, lastVix, aborted >>

\* A) the graph JSON, lines 174-186
GraphStep(responses) ==
    /\ pc = "fngA"
    /\ \E r \in responses :
        \E v \in {IF r.st = "ok" THEN _find_fng_from_graph_json(r.json) ELSE None} :
            /\ graphIn' = r
            /\ requests' = Append(requests, CNN_GRAPH_URL)
            /\ IF ~IsNone(v) /\ ~IsRaise(v)
               THEN /\ fng' = FngReading(v, "CNN (graphdata)", clock)
                    /\ pc' = "fngMerge"
                    /\ UNCHANGED run_notes
               ELSE /\ run_notes' = Append(run_notes, GraphNote(r, v))
                    /\ pc' = "fngB"
                    /\ UNCHANGED fng
    /\ UNCHANGED << file, clock, existing, out, vix, pageIn, csvIn,
                    fileAtStart, writes, lastFng, lastVix, aborted >>

\* B) the HTML page, lines 189-214
PageStep(responses) ==
    /\ pc = "fngB"
    /\ \E r \in responses :
        \E v \in {IF r.st = "ok" THEN FirstPageValue(PatternCaptures(r.text)) ELSE None} :
            /\ pageIn' = r
            /\ requests' = Append(requests, CNN_PAGE_URL)
            /\ IF ~IsNone(v)
               THEN /\ fng' = FngReading(v, "CNN (page)", clock)
                    /\ UNCHANGED run_notes
               ELSE /\ run_notes' = Append(run_notes,
                          IF r.st = "ok"
                          THEN JText("Fear&Greed: kunne ikke extracte fra CNN page (regex).")
                          ELSE FailNote("Fear&Greed page failed", r.exc))
                    /\ fng' = None
    /\ pc' = "fngMerge"
    /\ UNCHANGED << file, clock, existing, out, vix, graphIn, csvIn,
                    fileAtStart, writes, lastFng, lastVix, aborted >>

FetchGraph == GraphStep(GraphResponses)

FetchPage == PageStep(PageResponses)

----------------------------------------------------------------------------
(* main, lines 256-265 and 268-276: keep the reading or the previous one *)

\* prev = out.get(key) or {}; prev.get("value") raises AttributeError when
\* prev is neither falsy nor a dict
PrevRaises(d, key) == Truthy(Get(d, key)) /\ ~IsDict(Get(d, key))

PrevValue(d, key) == Get(Or(Get(d, key), EmptyDict), "value")

\* the reading is usable: fng is not None and fng.get("value") is not None
Usable(reading) == ~IsNone(reading) /\ ~IsNone(Get(reading, "value"))

\* resets the indicator when the fetch gave nothing
Keep_Reset(d, key, reading) ==
    SetKey(d, key, IF Usable(reading) THEN reading ELSE None)

\* the snapshot after the if/else that follows a fetch: the new reading, or
\* the snapshot as it was
Keep(d, key, reading) == IF Usable(reading) THEN SetKey(d, key, reading) ELSE d

\* the note of the else branch, for name = <<key, label>>
KeepNote(d, name) ==
    IF IsNone(PrevValue(d, name[1]))
    THEN JText(name[2] \o ": stadig ingen værdi (beholder None).")
    ELSE JText(name[2] \o ": fetch fejlede, beholdt sidste kendte værdi.")

MergeStep(at, key, label, reading, next) ==
    /\ pc = at
    /\ IF ~Usable(reading) /\ PrevRaises(out, key)
       THEN /\ pc' = "crashed"
            /\ UNCHANGED << out, run_notes >>
       ELSE /\ out' = Keep(out, key, reading)
            /\ run_notes' = IF Usable(reading) THEN run_notes
                            ELSE Append(run_notes, KeepNote(out, <<key, label>>))
            /\ pc' = next
    /\ UNCHANGED << file, clock, existing, fng, vix, requests, graphIn, pageIn,
                    csvIn, fileAtStart, writes, lastFng, lastVix, aborted >>

MergeFng == MergeStep("fngMerge", "fearGreed", "Fear&Greed", fng, "vix")

MergeVix == MergeStep("vixMerge", "vix", "VIX", vix, "notes")

----------------------------------------------------------------------------
(* fetch_vix_from_fred *)

CsvStep(responses) ==
    /\ pc = "vix"
    /\ \E r \in responses :
        \E reading \in {IF r.st = "ok" THEN VixReading(r.text) ELSE None} :
            /\ csvIn' = r
            /\ requests' = Append(requests, FRED_VIX_CSV)
            /\ vix' = reading
            /\ run_notes' =
                  IF ~IsNone(reading) THEN run_notes
                  ELSE Append(run_notes,
                          IF r.st = "ok" THEN JText("VIX: ingen gyldig værdi i FRED CSV.")
                          ELSE FailNote("VIX failed", r.exc))
    /\ pc' = "vixMerge"
    /\ UNCHANGED << file, clock, existing, out, fng, graphIn, pageIn,
                    fileAtStart, writes, lastFng, lastVix, aborted >>

FetchVix == CsvStep(CsvResponses)

----------------------------------------------------------------------------
(* main, lines 278-288: the notes and the write *)

\* seq[-n:]
LastN(seq, n) == IF Len(seq) <= n THEN seq ELSE SubSeq(seq, Len(seq) - n + 1, Len(seq))

\* seq[:n]
FirstN(seq, n) == IF Len(seq) <= n THEN seq ELSE SubSeq(seq, 1, n)

\* (out.get("notes") or [])[-20:] + run_notes[:6] raises TypeError (KeyError
\* for a dict) when the notes are neither falsy nor a list
NotesRaise(d) == Truthy(Get(d, "notes")) /\ ~IsList(Get(d, "notes"))

\* the notes trimmed after the run's notes are appended
MergedNotes_TrimLast(d, notes) ==
    JList(LastN(Or(Get(d, "notes"), JList(<<>>)).items \o FirstN(notes, RunNotesCap),
                NotesKeep))

\* the notes without the trim of the old ones
MergedNotes_NoTrim(d, notes) ==
    JList(Or(Get(d, "notes"), JList(<<>>)).items \o FirstN(notes, RunNotesCap))

MergedNotes(d, notes) ==
    JList(LastN(Or(Get(d, "notes"), JList(<<>>)).items, NotesKeep)
          \o FirstN(notes, RunNotesCap))

MergeNotes ==
    /\ pc = "notes"
    /\ IF NotesRaise(out)
       THEN /\ pc' = "crashed"
            /\ UNCHANGED << out, run_notes >>
       ELSE /\ run_notes' = FirstN(run_notes, RunNotesCap)
            /\ out' = SetKey(out, "notes", MergedNotes(out, run_notes))
            /\ pc' = "write"
    /\ UNCHANGED << file, clock, existing, fng, vix, requests, graphIn, pageIn,
                    csvIn, fileAtStart, writes, lastFng, lastVix, aborted >>

\* write_text opens the file for writing, which empties it ...
WriteOpen ==
    /\ pc = "write"
    /\ file' = Truncated
    /\ pc' = "writing"
    /\ UNCHANGED << clock, locals, requests, graphIn, pageIn, csvIn,
                    fileAtStart, writes, lastFng, lastVix, aborted >>

\* the code points U+D800..U+DFFF, which UTF-8 does not encode
Surrogates ==
    { "U+D" \o a \o b \o c :
        a \in {"8", "9", "A", "B", "C", "D", "E", "F"},
        b \in {AsciiDigits[k] : k \in 1..10} \cup {"A", "B", "C", "D", "E", "F"},
        c \in {AsciiDigits[k] : k \in 1..10} \cup {"A", "B", "C", "D", "E", "F"} }

RECURSIVE Encodable(_)
\* the text of json.dumps(v, ensure_ascii=False) can be encoded as UTF-8: no
\* string or key of v holds a surrogate (json.loads reads the escape of a
\* lone one, "\ud800", as that character; a pair is one character)
Encodable(v) ==
    CASE v.t = "str"  -> \A i \in 1..Len(v.s) : v.s[i] \notin Surrogates
      [] v.t = "list" -> \A i \in 1..Len(v.items) : Encodable(v.items[i])
      [] v.t = "obj"  -> \A i \in 1..Len(v.kv) :
                            v.kv[i][1] \notin Surrogates /\ Encodable(v.kv[i][2])
      [] OTHER -> TRUE

\* ... and then writes json.dumps(out) to it, encoded as UTF-8: the write
\* raises UnicodeEncodeError on a surrogate, and the file stays empty
WriteData ==
    /\ pc = "writing"
    /\ IF Encodable(out)
       THEN /\ file' = JsonFile(out)
            /\ writes' = writes + 1
            /\ pc' = "written"
            /\ lastFng' = IF ~IsNone(fng) THEN fng ELSE lastFng
            /\ lastVix' = IF ~IsNone(vix) THEN vix ELSE lastVix
       ELSE /\ pc' = "crashed"
            /\ UNCHANGED << file, writes, lastFng, lastVix >>
    /\ UNCHANGED << clock, locals, requests, graphIn, pageIn, csvIn, fileAtStart,
                    aborted >>

\* line 288: print, and main returns
Finish ==
    /\ pc = "written"
    /\ pc' = "done"
    /\ UNCHANGED << file, clock, locals, requests, graphIn, pageIn, csvIn,
                    fileAtStart, writes, lastFng, lastVix, aborted >>

\* the process is killed (signal, power loss) at any step
Interrupt ==
    /\ ~Ended
    /\ pc' = "killed"
    /\ UNCHANGED << file, clock, locals, requests, graphIn, pageIn, csvIn,
                    fileAtStart, writes, lastFng, lastVix, aborted >>

----------------------------------------------------------------------------
(* Specifications *)

Next ==
    \/ Load
    \/ FetchGraph
    \/ FetchPage
    \/ MergeFng
    \/ FetchVix
    \/ MergeVix
    \/ MergeNotes
    \/ WriteOpen
    \/ WriteData
    \/ Finish

\* invocations that run to their end
Spec == Init /\ [][Next]_vars

\* invocations that may be killed
SpecKill == Init /\ [][Next \/ Interrupt]_vars

----------------------------------------------------------------------------
(* The extraction of the graph JSON on its own: many payloads, one run *)

\* values a payload may hold under a key: numbers in and out of 0..100, the
\* falsy 0, a tie of round(), numeric strings (with white space, with an
\* exponent) and other strings, null, a boolean, NaN and Infinity
Leaves ==
    { JNum(616, 1), JInt(150), JNum(245, 1), JInt(-1), JInt(0),
      JStr(<<"\t", "4", "5", " ">>), JStr(<<"1", "e", "1">>),
      JStr(<<"n", "/", "a">>), None, JBool(TRUE), JNaN, JInf(FALSE) }

Obj1(k, v) == JObj(<< <<k, v>> >>)

Obj2(k1, v1, k2, v2) == JObj(<< <<k1, v1>>, <<k2, v2>> >>)

GraphPayloads ==
    Leaves
    \cup { JList(<<a, b>>) : a \in Leaves, b \in Leaves }
    \cup { Obj1("now", Obj1(k, a)) :
             k \in {"value", "score", "index", "rating"}, a \in Leaves }
    \cup { Obj1("now", Obj2("score", a, "value", b)) : a \in Leaves, b \in Leaves }
    \cup { Obj2("now", Obj1("value", a), "previous_close", b) :
             a \in Leaves, b \in Leaves }
    \cup { Obj2("timestamp", b, "now", Obj1("value", a)) :
             a \in Leaves, b \in Leaves }
    \cup { Obj1("data", JList(<< Obj1("now", Obj1("index", a)), b >>)) :
             a \in Leaves, b \in Leaves }
    \cup { Obj2("fear_and_greed", Obj2("score", a, "value", b), "now", JInt(3)) :
             a \in Leaves, b \in Leaves }
    \cup { Obj1("fearGreed", Obj2("now", Obj1("rating", a), "index", b)) :
             a \in Leaves, b \in Leaves }
    \cup { Obj2("a", Obj1("b", Obj1("now", Obj1("score", a))), "now", Obj1("value", b)) :
             a \in Leaves, b \in Leaves }

GraphResponsesAll == {Raised} \cup {Json(p) : p \in GraphPayloads}

FetchGraphAll == GraphStep(GraphResponsesAll)

\* the prior files of the runs that look at one fetch
FewPriorFiles ==
    { Absent,
      JsonFile(Market(PriorFearGreed, PriorVix, OldNotes(0))),
      JsonFile(JObj(<< <<"fearGreed", PriorFearGreed>>, <<"notes", OldNotes(1)>> >>)),
      JsonFile(Market(PriorFearGreed, None, OldNotes(1))) }

InitFew == Init /\ file \in FewPriorFiles

NextGraph == LoadOnce \/ FetchGraphAll

SpecGraph == InitFew /\ [][NextGraph]_vars

----------------------------------------------------------------------------
(* fetch_fng_best_effort on its own: every value, many pages, one run *)

\* tenths around the breakpoints of label_fng and the ends of 0..100
ScoreTenths ==
    { 0, 245, 250, 255, 445, 450, 545, 550, 745, 750, 1000, 1005, 1006 }
    \cup { 10 * i : i \in {24, 25, 44, 45, 54, 55, 74, 75, 99} }

GraphResponsesFng ==
    { Raised, Json(Obj1("error", JStr(<<"n", "/", "a">>))),
      Json(Obj1("fear_and_greed", Obj1("score", JNaN))),
      Json(Obj1("fear_and_greed", Obj1("score", JStr(<<"-", "I", "n", "f">>)))),
      Json(Obj1("fear_and_greed", Obj1("score", JNum(245004, 4)))),
      Json(Obj1("fear_and_greed", Obj1("score", JStr(<<"7", "_", "4", ".", "5", "0", "0", "1">>)))) }
    \cup { Json(Obj1("fear_and_greed", Obj1("score", JNum(t, 1)))) :
             t \in ScoreTenths }

\* the tokens of a page, and the pages of up to MaxPageLen tokens
MaxPageLen == 3

PageTokens ==
    { Tok("fg", <<>>), Tok("fg_", <<>>), Tok("now", <<>>), Tok("close", <<>>),
      Tok("value", <<>>), Tok("value", <<"6", "2">>),
      Tok("value", <<"2", "5", "0">>), Tok("score", <<"1", "0", "0", "0">>) }

Pages == UNION { [1..n -> PageTokens] : n \in 0..MaxPageLen }

PageResponsesAll == {Raised} \cup {Text(h) : h \in Pages}

FetchGraphFng == GraphStep(GraphResponsesFng)

FetchPageAll == PageStep(PageResponsesAll)

NextFng == LoadOnce \/ FetchGraphFng \/ FetchPageAll

SpecFng == InitFew /\ [][NextFng]_vars

----------------------------------------------------------------------------
(* fetch_vix_from_fred on its own: many CSV texts, one run *)

\* the value of a data line: a number that rounds up (13.456), numbers
\* whose third decimal is a 5 that a float holds as less (17.255) or exactly
\* (18.125 and 0.375, ties), the "." FRED prints for a day without a value,
\* a number with an exponent, the text nan that float() reads as NaN
CsvValues ==
    { <<"1", "3", ".", "4", "5", "6">>, <<"1", "7", ".", "2", "5", "5">>,
      <<"1", "8", ".", "1", "2", "5">>, <<"0", ".", "3", "7", "5">>,
      <<".">>, <<"1", "e", "1">>, <<"n", "a", "n">> }

\* line i of a CSV: a date and a value, a date alone, a line of white space
CsvRows(i) ==
    { CsvLine(i, v) : v \in CsvValues }
    \cup { DateChars(i) \o <<"\n">>, <<" ", "\t", "\n">> }

MaxCsvRows == 3

RECURSIVE Concat(_)
Concat(rows) == IF rows = <<>> THEN <<>> ELSE Head(rows) \o Concat(Tail(rows))

CsvTexts ==
    UNION { { CsvHeader \o Concat(rows) :
                rows \in { r \in [1..n -> UNION {CsvRows(i) : i \in 1..n}] :
                             \A i \in 1..n : r[i] \in CsvRows(i) } } :
            n \in 0..MaxCsvRows }

\* a text without the header line: a blank line, then a data line
Headless == <<" ", "\n">> \o CsvLine(1, <<"1", "3">>)

CsvResponsesAll == {Raised, Text(<<>>), Text(Headless)} \cup {Text(c) : c \in CsvTexts}

FetchVixAll == CsvStep(CsvResponsesAll)

\* the F&G fetch of these runs: the graphdata gives a value, or both
\* requests raise
FetchGraphVix ==
    GraphStep({r \in GraphResponses :
                 r.st = "raised" \/ HasKey(r.json, "fear_and_greed")})

FetchPageVix == PageStep({Raised})

NextVix ==
    \/ LoadOnce
    \/ FetchGraphVix
    \/ FetchPageVix
    \/ MergeFng
    \/ FetchVixAll
    \/ MergeVix
    \/ MergeNotes
    \/ WriteOpen
    \/ WriteData
    \/ Finish

SpecVix == InitFew /\ [][NextVix]_vars

----------------------------------------------------------------------------
(* Properties of main *)

Missing == [t |-> "missing"]

\* the value a snapshot holds under a top-level key, Missing without one
Field(doc, k) == IF IsDict(doc) /\ HasKey(doc, k) THEN Get(doc, k) ELSE Missing

\* the top-level field of the snapshot as loaded, and as written
Loaded(k) == Field(existing, k)

Written(k) == IF file.kind = "json" THEN Field(file.doc, k) ELSE Missing

TopKeys == {"updatedAt", "fearGreed", "vix", "notes", "owner"}

Indicators == {"fearGreed", "vix"}

DefaultOf(k) == IF k = "fearGreed" THEN DefaultFearGreed ELSE DefaultVix

\* what the fetch of an indicator returned in this run
Fetched(k) == IF k = "fearGreed" THEN fng ELSE vix

\* the run has reached its end: the file is written
Completed == pc = "done"

\* the loaded field, an indicator the loaded snapshot lacks counting as the
\* all-null default that main fills in
LoadedOrDefault(k) ==
    IF Loaded(k) = Missing /\ k \in Indicators THEN DefaultOf(k) ELSE Loaded(k)

\* C1 as stated: in a completed run in which an indicator's fetch gave no
\* value, the written reading of that indicator is the loaded one, and no
\* top-level field other than notes and updatedAt differs from the loaded
\* snapshot.
C1_OnlyNotesAndUpdatedAtChange ==
    Completed =>
        \A ind \in Indicators :
            IsNone(Fetched(ind)) =>
                /\ Written(ind) = LoadedOrDefault(ind)
                /\ \A k \in TopKeys \ {"notes", "updatedAt"} :
                       Written(k) = LoadedOrDefault(k)

\* C1, amended: in a completed run in which an indicator's fetch gave no
\* value, the written reading of that indicator is the loaded one (the
\* all-null default where the loaded snapshot has no such field), and every
\* top-level field other than notes and updatedAt is as loaded, except the
\* other indicator when its own fetch gave a reading, which is then written.
C1_FailedFetchKeepsReading ==
    Completed =>
        \A ind \in Indicators :
            IsNone(Fetched(ind)) =>
                /\ Written(ind) = LoadedOrDefault(ind)
                /\ \A k \in TopKeys \ {"notes", "updatedAt"} :
                       IF k \in Indicators /\ ~IsNone(Fetched(k))
                       THEN Written(k) = Fetched(k)
                       ELSE Written(k) = LoadedOrDefault(k)

\* a completed run whose F&G fetch failed and whose VIX fetch did not, over a
\* snapshot that held an F&G reading
C1_Witness ==
    /\ Completed
    /\ IsNone(fng)
    /\ ~IsNone(vix)
    /\ Loaded("fearGreed") = PriorFearGreed
    /\ Written("fearGreed") = PriorFearGreed
    /\ Loaded("owner") # Missing

\* the notes of the loaded snapshot, trimmed: (notes or [])[-20:]
TrimmedPrior ==
    IF IsList(Loaded("notes")) THEN LastN(Loaded("notes").items, NotesKeep) ELSE <<>>

BothFailed == Completed /\ IsNone(fng) /\ IsNone(vix)

\* the prior file's reading, the default structure's where it has none
Prior(k) == ReadingOf(fileAtStart, k, DefaultOf(k))

\* C2 as stated: when both fetches fail, fearGreed and vix are the prior
\* snapshot's and the written notes are the trimmed prior notes and exactly
\* two more.
C2_TwoNotesAppended ==
    BothFailed =>
        /\ Written("fearGreed") = Prior("fearGreed")
        /\ Written("vix") = Prior("vix")
        /\ Len(Written("notes").items) = Len(TrimmedPrior) + 2

\* C2, amended: when both fetches fail, fearGreed and vix are the prior
\* snapshot's (the all-null default where it has none) and the written
\* notes are the trimmed prior notes and exactly five more: one for each of
\* the two F&G sources, one for the F&G reading kept, one for the VIX fetch,
\* one for the VIX reading kept.
C2_FiveNotesAppended ==
    BothFailed =>
        /\ Written("fearGreed") = Prior("fearGreed")
        /\ Written("vix") = Prior("vix")
        /\ Len(Written("notes").items) = Len(TrimmedPrior) + 5
        /\ SubSeq(Written("notes").items, 1, Len(TrimmedPrior)) = TrimmedPrior
        /\ SubSeq(Written("notes").items, Len(TrimmedPrior) + 1,
                  Len(Written("notes").items)) = run_notes

\* both fetches failed over a snapshot holding both readings and more notes
\* than are kept
C2_Witness ==
    /\ BothFailed
    /\ Prior("fearGreed") = PriorFearGreed
    /\ Prior("vix") = PriorVix
    /\ IsList(Loaded("notes"))
    /\ Len(Loaded("notes").items) > NotesKeep

\* C3 as stated: the notes a completed run persists are never more than the
\* 20 to which main trims.
C3_NotesWithinTrimBound == Completed => Len(Written("notes").items) <= NotesKeep

\* C3, amended: the notes a completed run persists are never more than 25:
\* the 20 prior notes main keeps and the notes of the run, of which there are
\* at most five (the cap of six on a run's notes is never reached).
C3_NotesBounded ==
    Completed =>
        /\ Len(Written("notes").items) <= NotesKeep + 5
        /\ Len(run_notes) < RunNotesCap

\* a second run in a row that persists 25 notes
C3_Witness ==
    /\ Completed
    /\ clock = 2
    /\ Len(Written("notes").items) = NotesKeep + 5

\* C4: whatever the prior file holds and whatever the fetches do, a run
\* reaches its end and writes the file exactly once; no error leaves main.
C4_EveryRunCompletes ==
    /\ pc # "crashed"
    /\ Completed => writes = 1

\* C5: once a run has ended, be it killed at any step, the file holds the
\* whole prior content or the whole new snapshot.
C5_AtomicWrite == Ended => (file = fileAtStart \/ file = JsonFile(out))

\* the reading a file holds has a value
HasValue(f, k) ==
    /\ IsDict(ReadingOf(f, k, DefaultOf(k)))
    /\ ~IsNone(Get(ReadingOf(f, k, DefaultOf(k)), "value"))

\* C10: after a sequence of completed runs (none before it ended by an
\* exception or was killed) each indicator's persisted reading is that of
\* the latest run whose own fetch gave one (the initial file's if there is
\* none), whatever the other indicator's fetch did; a completed run does
\* not lose a value the file held; and after a failure of both F&G sources
\* the VIX has been requested and, if it gave a reading, that reading is
\* stored.
C10_IndependentIndicators ==
    Completed =>
        /\ ~aborted => Written("fearGreed") = lastFng
        /\ ~aborted => Written("vix") = lastVix
        /\ \A k \in Indicators : HasValue(fileAtStart, k) => HasValue(file, k)
        /\ IsNone(fng) =>
              /\ \E i \in 1..Len(requests) : requests[i] = FRED_VIX_CSV
              /\ ~IsNone(vix) => Written("vix") = vix

\* a second run whose F&G sources both failed and whose VIX fetch did not,
\* after a run that fetched the F&G reading the file still holds
C10_Witness ==
    /\ Completed
    /\ clock = 2
    /\ IsNone(fng)
    /\ ~IsNone(vix)
    /\ Written("vix") = vix
    /\ Prior("vix") = PriorVix
    /\ Get(Written("fearGreed"), "asof") = Today(1)

----------------------------------------------------------------------------
(* Properties of fetch_fng_best_effort *)

\* a returned value, None for an exception
Returned(v) == IF IsRaise(v) THEN None ELSE v

\* what each source yields for the response it got: a value, or None
PrimaryValue ==
    IF graphIn.st = "ok"
    THEN Returned(_find_fng_from_graph_json(graphIn.json))
    ELSE None

SecondaryValue ==
    IF pageIn.st = "ok" THEN FirstPageValue(PatternCaptures(pageIn.text)) ELSE None

\* the exceptions the extraction of a value raises
ExtractionErrors == {RoundHalfEven(JNaN), RoundHalfEven(JInf(FALSE))}

GraphNotes ==
    { FailNote("Fear&Greed graphdata failed", x) :
        x \in {RequestFailed} \cup ExtractionErrors }
    \cup { JText("Fear&Greed: kunne ikke finde 0-100 i CNN graphdata.") }

PageNotes ==
    { FailNote("Fear&Greed page failed", RequestFailed),
      JText("Fear&Greed: kunne ikke extracte fra CNN page (regex).") }

\* fetch_fng_best_effort has returned
FngReturned == pc = "fngMerge"

\* C6: the page is requested only after the graphdata request, and only when
\* that raised or gave no value; a value of the primary source is returned
\* with source "CNN (graphdata)" and the page is not requested; a value of
\* the secondary source alone is returned with source "CNN (page)"; with
\* neither, nothing is returned and each source has left a note.
C6_SourcesInOrder ==
    /\ \A i \in 1..Len(requests) :
          requests[i] = CNN_PAGE_URL =>
              /\ i = 2
              /\ requests[1] = CNN_GRAPH_URL
              /\ IsNone(PrimaryValue)
    /\ FngReturned =>
          /\ requests[1] = CNN_GRAPH_URL
          /\ ~IsNone(PrimaryValue) =>
                /\ requests = <<CNN_GRAPH_URL>>
                /\ Get(fng, "value") = PrimaryValue
                /\ Get(fng, "source") = JText("CNN (graphdata)")
          /\ (IsNone(PrimaryValue) /\ ~IsNone(SecondaryValue)) =>
                /\ requests = <<CNN_GRAPH_URL, CNN_PAGE_URL>>
                /\ Get(fng, "value") = SecondaryValue
                /\ Get(fng, "source") = JText("CNN (page)")
          /\ (IsNone(PrimaryValue) /\ IsNone(SecondaryValue)) =>
                /\ IsNone(fng)
                /\ requests = <<CNN_GRAPH_URL, CNN_PAGE_URL>>
                /\ \E i \in 1..Len(run_notes) : run_notes[i] \in GraphNotes
                /\ \E i \in 1..Len(run_notes) : run_notes[i] \in PageNotes

\* the graphdata gave JSON without a value and the page gave one
C6_Witness ==
    /\ FngReturned
    /\ graphIn.st = "ok"
    /\ IsNone(PrimaryValue)
    /\ ~IsNone(fng)
    /\ Get(fng, "source") = JText("CNN (page)")
    /\ Len(run_notes) = 1

\* the label the breakpoint table gives an integer
TableLabel(i) ==
    CASE i \in 0..24   -> "Ekstrem frygt"
      [] i \in 25..44  -> "Frygt"
      [] i \in 45..54  -> "Neutral"
      [] i \in 55..74  -> "Grådighed"
      [] i \in 75..100 -> "Ekstrem grådighed"

\* C7: a reading that fetch_fng_best_effort returns has an integer value in
\* 0..100 and the label of the breakpoint table: up to 24 extreme fear,
\* 25..44 fear, 45..54 neutral, 55..74 greed, from 75 extreme greed.
C7_LabelMatchesTable ==
    (FngReturned /\ ~IsNone(fng)) =>
        /\ Get(fng, "value").t = "int"
        /\ ~Get(fng, "value").neg
        /\ Len(Get(fng, "value").ip) <= 3
        /\ NatValue(Get(fng, "value").ip) \in 0..100
        /\ Get(fng, "label") = JText(TableLabel(NatValue(Get(fng, "value").ip)))

\* the graphdata gave 24.5, which rounds to 24, the last value of extreme fear
C7_Witness ==
    /\ FngReturned
    /\ graphIn.st = "ok"
    /\ Get(Get(graphIn.json, "fear_and_greed"), "score") = JNum(245, 1)
    /\ Get(fng, "value") = JInt(24)
    /\ Get(fng, "label") = JText("Ekstrem frygt")

----------------------------------------------------------------------------
(* Properties of _find_fng_from_graph_json *)

RECURSIVE Within(_)
\* a value and all the values nested in it
Within(x) ==
    IF IsDict(x) THEN {x} \cup UNION { Within(x.kv[i][2]) : i \in 1..Len(x.kv) }
    ELSE IF IsList(x) THEN {x} \cup UNION { Within(x.items[i]) : i \in 1..Len(x.items) }
    ELSE {x}

\* the recognized current-value fields of a payload: what any dict in it
\* holds under "now", if a dict, under "value", "score" or "index"
NowFields(p) ==
    UNION { { Get(Get(d, "now"), k) :
                k \in {k2 \in {"value", "score", "index"} : HasKey(Get(d, "now"), k2)} } :
            d \in {x \in Within(p) : IsDict(x) /\ IsDict(Get(x, "now"))} }

\* those of them that are a number, or a numeric string, that rounds to 0..100
UsableNowValues(p) == {v \in {safe_int_0_100(x) : x \in NowFields(p)} : v.t = "int"}

\* what the known top-level keys hold as their own score: the first truthy
\* of score, value and index (null, 0 and the empty ones are skipped), the
\* index if none is
KeyedFields(p) ==
    IF ~IsDict(p) THEN {}
    ELSE { Or(Or(Get(Get(p, k), "score"), Get(Get(p, k), "value")),
              Get(Get(p, k), "index")) :
             k \in {k2 \in {"fear_and_greed", "fearAndGreed", "fear_greed", "fearGreed"} :
                      IsDict(Get(p, k2))} }

KeyedValues(p) == {v \in {safe_int_0_100(x) : x \in KeyedFields(p)} : v.t = "int"}

\* the number-like leaves in 0..100, rounded
LeafValues(p) ==
    { RoundHalfEven(safe_float(x)) :
        x \in {y \in Within(p) :
                 /\ ~IsDict(y) /\ ~IsList(y)
                 /\ ~IsNone(safe_float(y))
                 /\ Geq0(safe_float(y)) /\ Leq(safe_float(y), 100)} }

\* the graphdata request returned JSON and the extraction has run
Extracted == graphIn.st = "ok" /\ pc \in {"fngB", "fngMerge"}

\* the extraction raised: the note of the except clause is the run's last
ExtractionRaised ==
    /\ pc = "fngB"
    /\ \E x \in ExtractionErrors :
          run_notes[Len(run_notes)] = FailNote("Fear&Greed graphdata failed", x)

\* what _find_fng_from_graph_json returned
GraphResult == IF pc = "fngMerge" THEN Get(fng, "value") ELSE None

\* C9 as stated: if the payload holds a recognized current-value field, the
\* function returns the value of such a field, and the scan of all numeric
\* leaves decides the result only when the payload holds no such field.
C9_ReturnsRecognizedField ==
    (Extracted /\ NowFields(graphIn.json) # {}) =>
        GraphResult \in NowFields(graphIn.json)

\* C9, amended: the function raises, instead of returning, only for a
\* payload in which a recognized current-value field, or the first truthy
\* of score, value, index of a known top-level key, holds NaN or an
\* infinity.  Whenever it returns: if the payload holds a recognized
\* current-value field whose value is a number, or a numeric string, that
\* rounds to an integer in 0..100, it returns such a field's value, rounded;
\* without such a field it returns the first truthy of score, value, index
\* of a known top-level key, if that one value is usable; the scan of all
\* numeric leaves decides only when neither exists; and None is returned
\* only when the scan finds no number in 0..100 either.
C9_ReturnsUsableField ==
    Extracted =>
        IF ExtractionRaised
        THEN \E x \in NowFields(graphIn.json) \cup KeyedFields(graphIn.json) :
                 safe_float(x).t \in {"nan", "inf"}
        ELSE IF UsableNowValues(graphIn.json) # {}
        THEN GraphResult \in UsableNowValues(graphIn.json)
        ELSE IF KeyedValues(graphIn.json) # {}
        THEN GraphResult \in KeyedValues(graphIn.json)
        ELSE IF LeafValues(graphIn.json) # {}
        THEN GraphResult \in LeafValues(graphIn.json)
        ELSE IsNone(GraphResult)

\* a payload whose "now" holds 150 under "value": the scan of the leaves
\* decides, and returns the 45 of another field
C9_Witness ==
    /\ Extracted
    /\ graphIn.json = Obj2("now", Obj1("value", JInt(150)),
                           "previous_close", JStr(<<"\t", "4", "5", " ">>))
    /\ GraphResult = JInt(45)

----------------------------------------------------------------------------
(* Properties of fetch_vix_from_fred *)

\* the data rows of a CSV with a numeric value: of its lines (stripped, the
\* blank ones dropped) those after the first that have a second part that
\* safe_float reads
NumericRows(lines) == { i \in 2..Len(lines) : Numeric(Split(lines[i], ",")) }

\* the last of the rows in file order
LastOf(rows) == CHOOSE i \in rows : \A j \in rows : j <= i

\* the FRED request returned a text and fetch_vix_from_fred has returned
VixReturned == csvIn.st = "ok" /\ pc = "vixMerge"

\* the value and the date of a line
ValueOfLine(ln) == safe_float(JStr(Split(ln, ",")[2]))

DateOfLine(ln) == JStr(Split(ln, ",")[1])

\* the magnitude of f cut after two decimals, and the next number of two
\* decimals
Cut2(f) == Dec(f.ip, SubSeq(f.fp \o Zeros(2), 1, 2))

Next2(f) ==
    Shifted(Inc(f.ip \o SubSeq(f.fp \o Zeros(2), 1, 2)),
            Len(Inc(f.ip \o SubSeq(f.fp \o Zeros(2), 1, 2))) - 2)

\* twice what f has after its second decimal, in units of the second
\* decimal: 1 when f lies half-way between Cut2(f) and Next2(f)
Rest2(f) == Dbl(Dec(<<>>, SubSeq(f.fp, 3, Len(f.fp))))

\* the number of two decimals nearest to the magnitude of f, the one with
\* the even second decimal when f lies half-way
Nearest2(f) ==
    IF Rest2(f).ip = <<>> THEN Cut2(f)
    ELSE IF Rest2(f).fp # <<>> THEN Next2(f)
    ELSE IF (f.fp \o Zeros(2))[2] % 2 = 0 THEN Cut2(f)
    ELSE Next2(f)

\* g is f rounded to two decimals: the float nearest to the number of two
\* decimals nearest to f; NaN and the infinities stay
IsRounded2(f, g) ==
    IF f.t \in {"nan", "inf"} THEN g = f
    ELSE g = Binary64(f.neg, Nearest2(f))

\* the reading is that of the last of the numeric rows, its value as it is or
\* rounded; without a numeric row there is no reading, and a note
ReadsLastRow(lines, rows, rounds) ==
    /\ ~IsNone(vix) <=> rows # {}
    /\ rows # {} =>
          /\ IF rounds
             THEN IsRounded2(ValueOfLine(lines[LastOf(rows)]), Get(vix, "value"))
             ELSE Get(vix, "value") = ValueOfLine(lines[LastOf(rows)])
          /\ Get(vix, "asof") = DateOfLine(lines[LastOf(rows)])
    /\ rows = {} =>
          \E i \in 1..Len(run_notes) :
              run_notes[i] = JText("VIX: ingen gyldig værdi i FRED CSV.")

ReadsLastRowOf(lines, rounds) == ReadsLastRow(lines, NumericRows(lines), rounds)

\* a run whose FRED text gave no reading writes the prior vix
NoReadingKeepsPrior ==
    (Completed /\ csvIn.st = "ok" /\ IsNone(vix)) => Written("vix") = Prior("vix")

\* C8 as stated: a reading is returned exactly when some data row has a
\* numeric value, and its value and asof are those of the last such row;
\* without one, nothing is returned, a note is recorded and the snapshot's
\* vix stays the prior one.
C8_LastRowValue ==
    /\ VixReturned => ReadsLastRowOf(StrippedLines(csvIn.text), FALSE)
    /\ NoReadingKeepsPrior

\* C8, amended: a reading is returned exactly when some data row has a
\* numeric value; its asof is that of the last such row and its value is
\* that row's value rounded to the nearest number of two decimals, a tie
\* going to the even second decimal; without one, nothing is returned, a
\* note is recorded and the snapshot's vix stays the prior one.
C8_LastRowValueRounded ==
    /\ VixReturned => ReadsLastRowOf(StrippedLines(csvIn.text), TRUE)
    /\ NoReadingKeepsPrior

\* the text ends with tail
EndsWith(text, tail) ==
    /\ Len(text) >= Len(tail)
    /\ SubSeq(text, Len(text) - Len(tail) + 1, Len(text)) = tail

\* a CSV whose last numeric row, 13.456, is followed by a row without a
\* value: the reading is 13.46 of the numeric row's date
C8_Witness ==
    /\ VixReturned
    /\ EndsWith(csvIn.text,
                CsvLine(2, <<"1", "3", ".", "4", "5", "6">>) \o CsvLine(3, <<".">>))
    /\ Get(vix, "value") = JNum(1346, 2)
    /\ Get(vix, "asof") = JStr(DateChars(2))

====
